---------------------------- MODULE Spec2Model ----------------------------
(***************************************************************************)
(* PARALLAX-CORE: the mode state machine of src/src/js/main.js together    *)
(* with the FaceTracker objects of src/src/js/tracker.js it drives, and    *)
(* the numeric pipeline behind it: OneEuroFilter (src/src/js/utils.js),    *)
(* the tracker's head position, ParallaxController (tracker.js) and the    *)
(* camera of ParallaxScene (src/unnamed/part_002).                         *)
(*                                                                         *)
(* JavaScript runs every handler to completion, so each action below is    *)
(* one handler run, or the part of an async function between two awaits.   *)
(* What follows an await that has settled (a microtask) is part of the     *)
(* action that settles it: FaceTracker.init() returning, initTracking()    *)
(* resuming after line 186, and the click handler resuming after line 116  *)
(* happen in one step.                                                     *)
(*                                                                         *)
(* Spec and SpecDemoStart are the mode machine: they leave the numeric     *)
(* objects aside, at their initial values.  SpecParallax, SpecFilter and   *)
(* SpecPipeline move the numeric objects: the controller under arbitrary   *)
(* calls, a filter under arbitrary calls, and the tracking loop feeding    *)
(* the controller.                                                         *)
(***************************************************************************)
EXTENDS Integers, FiniteSets

\* Bounds of the model.
MaxTrackers == 2   \* FaceTracker objects that can be alive at once
MaxRaf == 2        \* frame callbacks that can be pending at once
MaxMissRun == 21   \* the count of consecutive misses saturates here
MaxUpdates == 2    \* calls of ParallaxController.update in a run
MaxFilterCalls == 3  \* calls of filter on the OneEuroFilter on its own
MaxCycles == 2     \* detection cycles of the tracker that feeds the controller
MaxRun == 70       \* calls of filter that repeat one sample
MaxJitterSamples == 120   \* samples of the alternating sequence

\* Program constants.
FullConfidence == 100     \* tracker.js:139
DecayStep == 5            \* tracker.js:151
LowLightThreshold == 50   \* main.js:20  CONFIG.lowLightThreshold

VARIABLES
    demoMode,            \* main.js:33
    isRunning,           \* main.js:32
    tracker,             \* main.js:29; 0 is null, otherwise a slot of trk
    toggleDisabled,      \* modeToggleEl.disabled, main.js:114,117
    mouseControl,        \* a mousemove listener is installed, main.js:227
    lightBoosterHidden,  \* lightBoosterEl has class 'hidden', main.js:312,314
    trk,                 \* the FaceTracker objects alive, by slot
    srcObject,           \* #webcam's srcObject: 0 is null, else the stream
                         \* that the tracker of that slot acquired
    liveStreams,         \* streams whose tracks have not been stopped
    raf,                 \* callbacks requestAnimationFrame holds for the
                         \* next frame: how many animate, how many animateDemo
    par,                 \* the ParallaxController, tracker.js:295-360
    scene,               \* the camera of the ParallaxScene: its position and
                         \* the shift of its frustum from the neutral one
    call,                \* what the last update() handed to the scene
    ft,                  \* the head position and the filters of the
                         \* FaceTracker, tracker.js:30-39
    now,                 \* performance.now() / 1000
    flt,                 \* a OneEuroFilter called on its own, utils.js:27-77
    fret,                \* the last call of flt.filter: its sample, what it
                         \* returned, and the calls since flt was made or reset
    mouse,               \* mouseX and mouseY, main.js:34-35
    probe,               \* the jitter scenario: the samples fed to flt, and
                         \* the least and greatest output after the settling
    used                 \* calls made so far, by the operation they count

appVars == <<demoMode, isRunning, tracker, toggleDisabled, mouseControl,
             lightBoosterHidden, trk, srcObject, liveStreams, raf>>

coreVars == <<par, scene, call, ft, now, flt, fret, mouse, probe, used>>

vars == <<appVars, coreVars>>

Slots == 1..MaxTrackers

Max(a, b) == IF a >= b THEN a ELSE b

Min(a, b) == IF a <= b THEN a ELSE b

---------------------------------------------------------------------------
(* FaceTracker, tracker.js:21-286 *)

\* A slot holding no object.
NoObject ==
    [pc |-> "none", caller |-> "none", camera |-> "null",
     isTracking |-> FALSE, confidence |-> 0, landmarks |-> FALSE,
     missRun |-> -1]

\* new FaceTracker().  pc is the await at which init() stands; caller is
\* who awaits the initTracking() that made the object; missRun counts the
\* missed cycles since the last valid detection (-1 before the first one).
FaceTracker ==
    [pc |-> "new", caller |-> "none", camera |-> "null",
     isTracking |-> FALSE, confidence |-> 0, landmarks |-> FALSE,
     missRun |-> -1]

\* The score after a missed cycle that forgets the floor.
MissedConfidenceUnfloored(c) == c - DecayStep

\* tracker.js:151
MissedConfidence(c) == Max(0, c - DecayStep)

\* The score after a valid detection, were it ramped up like the decay.
DetectedConfidenceRamped(c) == Min(FullConfidence, c + DecayStep)

\* tracker.js:139
DetectedConfidence(c) == FullConfidence

\* onResults(results) on tracker object t, tracker.js:124-153.  detected is
\* results.multiFaceLandmarks holding a face.
OnResultsTracker(t, detected) ==
    IF detected
    THEN [t EXCEPT !.landmarks = TRUE,
                   !.confidence = DetectedConfidence(@),
                   !.missRun = 0]
    ELSE [t EXCEPT !.confidence = MissedConfidence(@),
                   !.landmarks = FALSE,
                   !.missRun = IF @ = -1 THEN -1 ELSE Min(@ + 1, MaxMissRun)]

\* stop() that clears the flag and leaves the camera running.
StopFlagOnly(t) == [t EXCEPT !.isTracking = FALSE]

\* stop() on tracker object t, tracker.js:265-278 (its camera and flag; the
\* tracks of #webcam's stream are stopped by the caller's liveStreams').
Stop(t) ==
    [t EXCEPT !.camera = IF @ = "started" THEN "stopped" ELSE @,
              !.isTracking = FALSE]

\* Garbage collection: an object that init() has left, whose camera does
\* not run and that main.js no longer references (ref) is unreachable.
Collect(t, ref) ==
    [i \in Slots |->
        IF i # ref /\ t[i].pc = "done" /\ t[i].camera # "started"
        THEN NoObject ELSE t[i]]

\* Slot i can take a new object (a slot whose stream still lives is kept).
Free(t, i) == t[i].pc = "none" /\ i \notin liveStreams

\* The trackers whose init() stands at an await.
InFlight == {i \in Slots : trk[i].pc \in {"getUserMedia", "play", "start"}}

---------------------------------------------------------------------------
(* main.js *)

\* The alert comparison with the bound included.
LowLightInclusive(c) == c <= LowLightThreshold

\* main.js:311
LowLight(c) == c < LowLightThreshold

\* The alert taken at the 'medium' colour step of main.js:306.
HandleConfidenceChangeMedium(c) ==
    IF demoMode THEN lightBoosterHidden ELSE ~(c < 70)

\* handleConfidenceChange(confidence), main.js:297-316: whether the light
\* booster is hidden afterwards.
HandleConfidenceChange(c) ==
    IF demoMode THEN lightBoosterHidden ELSE ~LowLight(c)

\* The guard of animateDemo written like animate's.
AnimateDemoPassesAsAnimate(running, demo) == running /\ ~demo

\* animateDemo's guard, main.js:239
AnimateDemoPasses(running, demo) == running /\ demo

\* The guard of animate without the test of the mode.
AnimatePassesRunningOnly(running, demo) == running

\* animate's guard, main.js:267
AnimatePasses(running, demo) == running /\ ~demo

\* A call of animateDemo() with the globals as given, main.js:238-241
AnimateDemo(running, demo, r) ==
    IF AnimateDemoPasses(running, demo) THEN [r EXCEPT !.demo = @ + 1] ELSE r

\* A call of animate() with the globals as given, main.js:266-269
Animate(running, demo, r) ==
    IF AnimatePasses(running, demo) THEN [r EXCEPT !.animate = @ + 1] ELSE r

Pending == raf.animate + raf.demo

\* An initTracking() started by the toggle is pending, main.js:116
TogglePending == \E i \in InFlight : trk[i].caller = "toggle"

\* A frame tick in this state runs an animate callback past its guard, and
\* that callback calls parallax.update with tracker.getPosition(),
\* main.js:266-275
FeedsTracker == raf.animate > 0 /\ AnimatePasses(isRunning, demoMode)

\* A frame tick in this state runs an animateDemo callback past its guard,
\* and that callback calls parallax.update(mouseX, mouseY), main.js:238-244
FeedsPointer == raf.demo > 0 /\ AnimateDemoPasses(isRunning, demoMode)

\* The click handler resuming after await initTracking(), main.js:117
ToggleAfterInit(t, i) ==
    IF t[i].caller = "toggle" THEN FALSE ELSE toggleDisabled

\* initTracking() resuming with trackingReady false, left in tracking mode.
InitTrackingFallbackKeepsMode(i, t) ==
    /\ Pending < MaxRaf
    /\ mouseControl' = TRUE
    /\ isRunning' = TRUE
    /\ raf' = AnimateDemo(TRUE, demoMode, raf)
    /\ toggleDisabled' = ToggleAfterInit(t, i)
    /\ trk' = Collect(t, tracker)
    /\ UNCHANGED <<demoMode, tracker, lightBoosterHidden, srcObject, liveStreams>>
    /\ UNCHANGED coreVars

\* initTracking() resuming with trackingReady false, main.js:188-203, in
\* the step in which init() of tracker i returned false; t is trk after it.
InitTrackingFallback(i, t) ==
    /\ Pending < MaxRaf
    /\ demoMode' = TRUE
    /\ mouseControl' = TRUE
    /\ isRunning' = TRUE
    /\ raf' = AnimateDemo(TRUE, TRUE, raf)
    /\ toggleDisabled' = ToggleAfterInit(t, i)
    /\ trk' = Collect(t, tracker)
    /\ UNCHANGED <<tracker, lightBoosterHidden, srcObject, liveStreams>>
    /\ UNCHANGED coreVars

\* initTracking() resuming with trackingReady true, main.js:205-220
InitTrackingReady(i, t) ==
    /\ AnimatePasses(TRUE, demoMode) => Pending < MaxRaf
    /\ isRunning' = TRUE
    /\ raf' = Animate(TRUE, demoMode, raf)
    /\ toggleDisabled' = ToggleAfterInit(t, i)
    /\ trk' = Collect(t, tracker)
    /\ UNCHANGED <<demoMode, mouseControl, tracker, lightBoosterHidden,
                   srcObject, liveStreams>>
    /\ UNCHANGED coreVars

---------------------------------------------------------------------------
(* FaceTracker.init(), tracker.js:52-112, await by await *)

\* getUserMedia resolves, tracker.js:63-72
GetUserMediaResolves(i) ==
    /\ trk[i].pc = "getUserMedia"
    /\ liveStreams' = liveStreams \cup {i}
    /\ srcObject' = i
    /\ trk' = [trk EXCEPT ![i].pc = "play"]
    /\ UNCHANGED <<demoMode, isRunning, tracker, toggleDisabled, mouseControl,
                   lightBoosterHidden, raf>>
    /\ UNCHANGED coreVars

\* getUserMedia rejects, tracker.js:63,108-110
GetUserMediaRejects(i) ==
    /\ trk[i].pc = "getUserMedia"
    /\ InitTrackingFallback(i, [trk EXCEPT ![i].pc = "done"])

\* videoElement.play() resolves; FaceMesh and Camera are made,
\* tracker.js:72-101
PlayResolves(i) ==
    /\ trk[i].pc = "play"
    /\ trk' = [trk EXCEPT ![i].pc = "start", ![i].camera = "created"]
    /\ UNCHANGED <<demoMode, isRunning, tracker, toggleDisabled, mouseControl,
                   lightBoosterHidden, srcObject, liveStreams, raf>>
    /\ UNCHANGED coreVars

\* videoElement.play() rejects, or new window.FaceMesh throws,
\* tracker.js:72-75,108-110
PlayRejects(i) ==
    /\ trk[i].pc = "play"
    /\ InitTrackingFallback(i, [trk EXCEPT ![i].pc = "done"])

\* camera.start() resolves, tracker.js:101-107
CameraStartResolves(i) ==
    /\ trk[i].pc = "start"
    /\ InitTrackingReady(i, [trk EXCEPT ![i].pc = "done",
                                        ![i].camera = "started",
                                        ![i].isTracking = TRUE])

\* camera.start() rejects, tracker.js:101,108-110
CameraStartRejects(i) ==
    /\ trk[i].pc = "start"
    /\ InitTrackingFallback(i, [trk EXCEPT ![i].pc = "done"])

\* init() of tracker i returns false.
InitReturnsFalse(i) ==
    GetUserMediaRejects(i) \/ PlayRejects(i) \/ CameraStartRejects(i)

---------------------------------------------------------------------------
(* Events *)

\* The click listener, branch demoMode, up to its await: main.js:110-116,
\* initTracking up to its await: main.js:175-186, and init() up to its
\* first await: tracker.js:52-63.  A disabled button dispatches no click,
\* from the pointer or from key T (main.js:354-358).
ClickToTracking ==
    /\ ~toggleDisabled
    /\ demoMode
    /\ LET t0 == Collect(trk, 0)
       IN  /\ \E i \in Slots : Free(t0, i)
           /\ LET i == CHOOSE j \in Slots :
                          Free(t0, j) /\ \A k \in Slots : Free(t0, k) => j <= k
              IN  /\ tracker' = i
                  /\ trk' = [t0 EXCEPT ![i] =
                               [FaceTracker EXCEPT !.pc = "getUserMedia",
                                                   !.caller = "toggle"]]
    /\ demoMode' = FALSE
    /\ isRunning' = FALSE
    /\ toggleDisabled' = TRUE
    /\ UNCHANGED <<mouseControl, lightBoosterHidden, srcObject, liveStreams, raf>>
    /\ UNCHANGED coreVars

\* The click listener, branch not demoMode, main.js:118-138
ClickToDemo ==
    /\ ~toggleDisabled
    /\ ~demoMode
    /\ Pending < MaxRaf
    /\ demoMode' = TRUE
    /\ liveStreams' = IF tracker # 0 THEN liveStreams \ {srcObject}
                                     ELSE liveStreams
    /\ trk' = IF tracker # 0
              THEN Collect([trk EXCEPT ![tracker] = Stop(@)], 0)
              ELSE Collect(trk, 0)
    /\ tracker' = 0
    /\ isRunning' = TRUE
    /\ raf' = AnimateDemo(TRUE, TRUE, raf)
    /\ UNCHANGED <<toggleDisabled, mouseControl, lightBoosterHidden, srcObject>>
    /\ UNCHANGED coreVars

\* One detection cycle of tracker i: the camera's frame goes to
\* faceMesh.send, which calls onResults, tracker.js:92-95,114-158;
\* onConfidenceChange is handleConfidenceChange (main.js:184).  This is
\* what the cycle does to the score, the landmarks and the alert.
Detection(i, detected) ==
    /\ trk[i].camera = "started"
    /\ trk' = [trk EXCEPT ![i] = OnResultsTracker(@, detected)]
    /\ lightBoosterHidden' =
          HandleConfidenceChange(OnResultsTracker(trk[i], detected).confidence)
    /\ UNCHANGED <<demoMode, isRunning, tracker, toggleDisabled, mouseControl,
                   srcObject, liveStreams, raf>>

\* A detection cycle of tracker i, the head position left aside.
OnResults(i, detected) ==
    /\ Detection(i, detected)
    /\ UNCHANGED coreVars

\* One display frame: every pending callback runs, and the ones that pass
\* their guard ask for the next frame, main.js:238-241,266-269.  What the
\* passing callbacks then feed to parallax.update (main.js:244,275) is
\* FeedsPointer's and FeedsTracker's; the update itself is Update's.
FrameTick ==
    /\ Pending > 0
    /\ raf' = [animate |-> IF AnimatePasses(isRunning, demoMode)
                           THEN raf.animate ELSE 0,
               demo |-> IF AnimateDemoPasses(isRunning, demoMode)
                        THEN raf.demo ELSE 0]
    /\ UNCHANGED <<demoMode, isRunning, tracker, toggleDisabled, mouseControl,
                   lightBoosterHidden, trk, srcObject, liveStreams>>
    /\ UNCHANGED coreVars

\* Key L, main.js:340-344
KeyL ==
    /\ lightBoosterHidden' = ~lightBoosterHidden
    /\ UNCHANGED <<demoMode, isRunning, tracker, toggleDisabled, mouseControl,
                   trk, srcObject, liveStreams, raf>>
    /\ UNCHANGED coreVars

---------------------------------------------------------------------------
(* Numbers.  A JavaScript number v is held as the integer nearest to       *)
(* v * Scale; a product is rounded to the nearest unit, ties away from 0.  *)
(* NaN and the infinities are not values of the model.                     *)

Scale == 1000

Abs(a) == IF a >= 0 THEN a ELSE -a

\* n / d for d > 0, rounded to the nearest integer, ties away from zero.
RoundDiv(n, d) ==
    IF n >= 0 THEN (2 * n + d) \div (2 * d)
              ELSE -((2 * (-n) + d) \div (2 * d))

\* a * b of two scaled numbers.
Mul(a, b) == RoundDiv(a * b, Scale)

\* utils.js:12-14
lerp(current, target, factor) == current + Mul(target - current, factor)

\* clamp that lets every value through.
clampNone(value, min, max) == value

\* clamp that keeps the lower bound only.
clampLower(value, min, max) == Max(min, value)

\* utils.js:19-21
clamp(value, min, max) == Max(min, Min(max, value))

---------------------------------------------------------------------------
(* OneEuroFilter, utils.js:27-77.  A time is held as a number of ticks of  *)
(* 1/3000 s, so that the 1/60 s of a frame at 60 Hz is 50 ticks; null is   *)
(* the empty tuple and a number v held by a nullable field is <<v>>.       *)

TwoPi == 6283           \* 2 * Math.PI, utils.js:40
FallbackRate == 60      \* 1 / (1/60),  utils.js:58
TicksPerSecond == 3000
Period == 50            \* 1/60 s in ticks

\* new OneEuroFilter(frequency, minCutoff, beta, dCutoff), utils.js:28-37
OneEuroFilter(frequency, minCutoff, beta, dCutoff) ==
    [frequency |-> frequency, minCutoff |-> minCutoff, beta |-> beta,
     dCutoff |-> dCutoff, xPrev |-> <<>>, dxPrev |-> 0, tPrev |-> <<>>]

\* alpha with tau taken as 1 / cutoff, the 2 * pi left out.
alphaNoTwoPi(frequency, cutoff) ==
    RoundDiv(cutoff * Scale, cutoff + frequency)

\* alpha with tau and te exchanged.
alphaExchanged(frequency, cutoff) ==
    LET w == Mul(TwoPi, cutoff)
    IN  RoundDiv(frequency * Scale, w + frequency)

\* alpha(cutoff) at this.frequency, utils.js:39-43: 1 / (1 + tau / te),
\* where tau / te = frequency / (2 * pi * cutoff), as one quotient.
alpha(frequency, cutoff) ==
    LET w == Mul(TwoPi, cutoff)
    IN  RoundDiv(w * Scale, w + frequency)

\* Mix that goes past x by the share it should keep of y.
MixPast(a, x, y) == RoundDiv((2 * Scale - a) * x - (Scale - a) * y, Scale)

\* a * x + (1 - a) * y, utils.js:59,66
Mix(a, x, y) == RoundDiv(a * x + (Scale - a) * y, Scale)

\* The frequency that falls back to 60 when no time has passed.
FrequencyNominal(frequency, dt) ==
    IF dt > 0 THEN RoundDiv(Scale * TicksPerSecond, dt)
              ELSE FallbackRate * Scale

\* this.frequency after a sample dt after the last one, utils.js:54
Frequency(frequency, dt) ==
    IF dt > 0 THEN RoundDiv(Scale * TicksPerSecond, dt) ELSE frequency

\* dx for a change of delta over dt, utils.js:58
Derivative(delta, dt) ==
    IF dt > 0 THEN RoundDiv(delta * TicksPerSecond, dt)
              ELSE delta * FallbackRate

\* filter(x, timestamp) on filter f, utils.js:45-70: the filter afterwards
\* and the value returned.  unit is the number that holds the value 1.0
\* of a sample (Scale, or more for samples that need finer steps), which
\* the product beta * |edx| has to know.
filterIn(unit, f, x, timestamp) ==
    IF f.xPrev = <<>>
    THEN [self |-> [f EXCEPT !.xPrev = <<x>>, !.tPrev = <<timestamp>>],
          result |-> x]
    ELSE LET dt == timestamp - f.tPrev[1]
             frequency == Frequency(f.frequency, dt)
             dx == Derivative(x - f.xPrev[1], dt)
             edx == Mix(alpha(frequency, f.dCutoff), dx, f.dxPrev)
             cutoff == f.minCutoff + RoundDiv(f.beta * Abs(edx), unit)
             result == Mix(alpha(frequency, cutoff), x, f.xPrev[1])
         IN  [self |-> [f EXCEPT !.frequency = frequency,
                                 !.tPrev = <<timestamp>>,
                                 !.dxPrev = edx,
                                 !.xPrev = <<result>>],
              result |-> result]

\* filter(x, timestamp) on samples held in units of 1/Scale.
filter(f, x, timestamp) == filterIn(Scale, f, x, timestamp)

\* reset that halves the derivative.
resetHalving(f) ==
    [f EXCEPT !.xPrev = <<>>, !.dxPrev = @ \div 2, !.tPrev = <<>>]

\* reset that clears the derivative only.
resetDerivative(f) == [f EXCEPT !.dxPrev = 0]

\* reset(), utils.js:72-76
reset(f) == [f EXCEPT !.xPrev = <<>>, !.dxPrev = 0, !.tPrev = <<>>]

DefaultFrequency == 60000  \* 60,    tracker.js:38
DefaultMinCutoff == 1000   \* 1.0,   tracker.js:38
DefaultBeta == 7           \* 0.007, tracker.js:38
DefaultDCutoff == 1000     \* 1.0,   utils.js:28

\* new OneEuroFilter(60, 1.0, 0.007), tracker.js:38-39
TrackerFilter ==
    OneEuroFilter(DefaultFrequency, DefaultMinCutoff, DefaultBeta,
                  DefaultDCutoff)

\* No call of filter yet.  Of the last call, x is the sample, result what
\* it returned, prev the last value before it and dt the time since the
\* call before; n counts the calls since the filter was made or reset,
\* and run the calls that have repeated the sample x one period apart.
NoReturn == [x |-> 0, result |-> 0, prev |-> 0, dt |-> 0, n |-> 0, run |-> 0]

\* What a call of filter with sample x at timestamp leaves in fret.
Returned(f, r, x, timestamp, run) ==
    [x |-> x, result |-> filter(f, x, timestamp).result,
     prev |-> IF f.xPrev = <<>> THEN x ELSE f.xPrev[1],
     dt |-> IF f.tPrev = <<>> THEN 0 ELSE timestamp - f.tPrev[1],
     n |-> r.n + 1, run |-> run]

\* The samples and the timestamps filter is called with; the timestamps
\* come in any order, so dt is positive, zero or negative.
Samples == {-1000, 0, 10, 1000}
Timestamps == {0, 50, 100}

\* flt.filter(x, timestamp)
Filter(x, timestamp) ==
    /\ used.filter < MaxFilterCalls
    /\ flt' = filter(flt, x, timestamp).self
    /\ fret' = Returned(flt, fret, x, timestamp, 0)
    /\ used' = [used EXCEPT !.filter = @ + 1]
    /\ UNCHANGED <<appVars, par, scene, call, ft, now, mouse, probe>>

\* flt.reset()
FilterReset ==
    /\ flt' = reset(flt)
    /\ fret' = [fret EXCEPT !.n = 0, !.run = 0]
    /\ UNCHANGED <<appVars, par, scene, call, ft, now, mouse, probe, used>>

\* The alternating sequence 0.0, 0.01, 0.0, 0.01, ... at 60 Hz: its
\* samples are held in units of 1/FineUnit, the n-th of them (from 0)
\* comes at n periods, and the outputs are measured once SettleSamples
\* samples have gone through.
FineUnit == 100000
JitterAmplitude == 1000
SettleSamples == 30
JitterInput(n) == IF n % 2 = 0 THEN 0 ELSE JitterAmplitude

\* The probe after the n-th sample returned result.
Measured(p, result) ==
    [n |-> p.n + 1,
     lo |-> IF p.n < SettleSamples THEN 0
            ELSE IF p.n = SettleSamples THEN result ELSE Min(p.lo, result),
     hi |-> IF p.n < SettleSamples THEN 0
            ELSE IF p.n = SettleSamples THEN result ELSE Max(p.hi, result)]

\* flt.filter with the next sample of the alternating sequence.
JitterSample ==
    /\ probe.n < MaxJitterSamples
    /\ LET r == filterIn(FineUnit, flt, JitterInput(probe.n),
                         probe.n * Period)
       IN  /\ flt' = r.self
           /\ probe' = Measured(probe, r.result)
    /\ UNCHANGED <<appVars, par, scene, call, ft, now, fret, mouse, used>>

\* flt.filter with the sample of the last call again, one period later.
Repeat ==
    /\ flt.xPrev # <<>>
    /\ fret.run < MaxRun
    /\ flt' = filter(flt, fret.x, flt.tPrev[1] + Period).self
    /\ fret' = Returned(flt, fret, fret.x, flt.tPrev[1] + Period,
                        fret.run + 1)
    /\ UNCHANGED <<appVars, par, scene, call, ft, now, mouse, probe, used>>

---------------------------------------------------------------------------
(* ParallaxScene, the camera: src/unnamed/part_002:179-213 *)

ShiftFactorX == 10     \* 0.01, part_002:202
ShiftFactorY == 250    \* 0.25, part_002:203
VerticalFactor == 500  \* 0.5,  part_002:183

\* The camera as ParallaxScene's constructor leaves it: at the centre (its
\* z never changes), with the symmetric frustum of a PerspectiveCamera.
\* left, right, top, bottom are what the frustum's bounds are shifted by.
ParallaxScene ==
    [cameraX |-> 0, cameraY |-> 0,
     left |-> 0, right |-> 0, top |-> 0, bottom |-> 0]

\* updateCameraPosition that moves the camera with the head.
updateCameraPositionSameWay(sc, headX, headY, sensitivity) ==
    [sc EXCEPT !.cameraX = Mul(headX, sensitivity),
               !.cameraY = Mul(Mul(headY, sensitivity), VerticalFactor)]

\* updateCameraPosition(headX, headY, sensitivity), part_002:179-187
updateCameraPosition(sc, headX, headY, sensitivity) ==
    [sc EXCEPT !.cameraX = Mul(-headX, sensitivity),
               !.cameraY = Mul(Mul(-headY, sensitivity), VerticalFactor)]

\* applyOffAxisProjection that shifts both axes by the vertical factor.
applyOffAxisProjectionEven(sc, headX, headY) ==
    [sc EXCEPT !.left = Mul(headX, ShiftFactorY),
               !.right = Mul(headX, ShiftFactorY),
               !.top = Mul(headY, ShiftFactorY),
               !.bottom = Mul(headY, ShiftFactorY)]

\* applyOffAxisProjection(headX, headY), part_002:192-213
applyOffAxisProjection(sc, headX, headY) ==
    LET shiftX == Mul(headX, ShiftFactorX)
        shiftY == Mul(headY, ShiftFactorY)
    IN  [sc EXCEPT !.left = shiftX, !.right = shiftX,
                   !.top = shiftY, !.bottom = shiftY]

---------------------------------------------------------------------------
(* ParallaxController, tracker.js:295-360 *)

DefaultSensitivity == 2000  \* 2.0,  tracker.js:300
DefaultLerpFactor == 100    \* 0.1,  tracker.js:301
MinSensitivity == 500       \* 0.5,  tracker.js:336
MaxSensitivity == 5000      \* 5.0,  tracker.js:336
MinLerpFactor == 10         \* 0.01, tracker.js:343
MaxLerpFactor == 500        \* 0.5,  tracker.js:343
Unit == 1000                \* 1,    tracker.js:320

\* new ParallaxController(scene), tracker.js:296-307
ParallaxController ==
    [sensitivity |-> DefaultSensitivity, lerpFactor |-> DefaultLerpFactor,
     enableOffAxis |-> TRUE, currentX |-> 0, currentY |-> 0]

\* Nothing has been handed to the scene yet.
NoCall == [x |-> 0, y |-> 0, offAxis |-> FALSE]

\* The fields of the controller after update(headX, headY),
\* tracker.js:316-317
Smoothed(p, headX, headY) ==
    [p EXCEPT !.currentX = lerp(@, headX, p.lerpFactor),
              !.currentY = lerp(@, headY, p.lerpFactor)]

\* What update hands to the scene, tracker.js:320-321,327
Handed(p) ==
    [x |-> clamp(p.currentX, -Unit, Unit),
     y |-> clamp(p.currentY, -Unit, Unit),
     offAxis |-> p.enableOffAxis]

\* The scene after the calls of update, tracker.js:324-329, that ignores
\* enableOffAxis.
RenderedAlways(sc, c, sensitivity) ==
    applyOffAxisProjection(
        updateCameraPosition(sc, c.x, c.y, sensitivity), c.x, c.y)

\* The scene after the calls of update, tracker.js:324-329, c being what
\* it hands over.
Rendered(sc, c, sensitivity) ==
    LET moved == updateCameraPosition(sc, c.x, c.y, sensitivity)
    IN  IF c.offAxis THEN applyOffAxisProjection(moved, c.x, c.y) ELSE moved

\* The values update is called with, as pairs: the centre, inside the
\* range, at its ends, and far outside it.
Targets == {<<0, 0>>, <<1000, 400>>, <<-1000, 1000>>, <<3000, -3000>>}

\* The values the setters are called with.
SensitivityArgs == {-1000, 3000, 8000}
SmoothingArgs == {-1000, 300, 2000}

\* parallax.update(headX, headY), tracker.js:314-330
Update(headX, headY) ==
    /\ used.update < MaxUpdates
    /\ par' = Smoothed(par, headX, headY)
    /\ call' = Handed(par')
    /\ scene' = Rendered(scene, call', par.sensitivity)
    /\ used' = [used EXCEPT !.update = @ + 1]
    /\ UNCHANGED <<appVars, ft, now, flt, fret, mouse, probe>>

\* parallax.setSensitivity(value), tracker.js:335-337
SetSensitivity(value) ==
    /\ par' = [par EXCEPT !.sensitivity =
                              clamp(value, MinSensitivity, MaxSensitivity)]
    /\ UNCHANGED <<appVars, scene, call, ft, now, flt, fret, mouse, probe, used>>

\* parallax.setSmoothing(value), tracker.js:342-344
SetSmoothing(value) ==
    /\ par' = [par EXCEPT !.lerpFactor =
                              clamp(value, MinLerpFactor, MaxLerpFactor)]
    /\ UNCHANGED <<appVars, scene, call, ft, now, flt, fret, mouse, probe, used>>

\* parallax.toggleOffAxis(enabled), tracker.js:349-351
ToggleOffAxis(enabled) ==
    /\ par' = [par EXCEPT !.enableOffAxis = enabled]
    /\ UNCHANGED <<appVars, scene, call, ft, now, flt, fret, mouse, probe, used>>

\* reset() that builds the controller anew.
RecentredToDefaults(p) == ParallaxController

\* The fields of the controller after reset(), tracker.js:356-359
Recentred(p) == [p EXCEPT !.currentX = 0, !.currentY = 0]

\* parallax.reset(), tracker.js:356-359
ParallaxReset ==
    /\ par' = Recentred(par)
    /\ UNCHANGED <<appVars, scene, call, ft, now, flt, fret, mouse, probe, used>>

---------------------------------------------------------------------------
(* The head position of the FaceTracker, tracker.js:30-39,124-136 *)

Half == 500  \* 0.5, tracker.js:131

\* The head position and the filters after a valid detection with the
\* nose tip at nose, at time t: tracker.js:127-136.  Both filters read
\* performance.now() within the same handler run.
Located(t, nose, time) ==
    LET rawX == (nose[1] - Half) * 2
        rawY == (nose[2] - Half) * 2
        fx == filter(t.filterX, rawX, time)
        fy == filter(t.filterY, rawY, time)
    IN  [headX |-> fx.result, headY |-> fy.result,
         filterX |-> fx.self, filterY |-> fy.self]

\* onResults that recentres the head when no face is found.
HeadAfterRecentring(t, detected, nose, time) ==
    IF detected THEN Located(t, nose, time)
                ELSE [t EXCEPT !.headX = 0, !.headY = 0]

\* The head position and the filters after onResults, tracker.js:124-153:
\* the branch without a face assigns confidence and landmarks only.
HeadAfter(t, detected, nose, time) ==
    IF detected THEN Located(t, nose, time) ELSE t

\* Where MediaPipe puts the nose tip, in image coordinates: the centre, off
\* the centre, and beyond the right edge.
NosePoints == {<<500, 500>>, <<750, 250>>, <<1500, 0>>}

\* The time between two detection cycles.
FrameTimes == {0, 100}

\* One detection cycle of the tracker main.js drives the controller with,
\* tracker.js:114-158, dt after the one before.
TrackedOnResults(detected, nose, dt) ==
    /\ tracker # 0
    /\ used.cycle < MaxCycles
    /\ Detection(tracker, detected)
    /\ now' = now + dt
    /\ ft' = HeadAfter(ft, detected, nose, now')
    /\ used' = [used EXCEPT !.cycle = @ + 1]
    /\ UNCHANGED <<par, scene, call, flt, fret, mouse, probe>>

\* One display frame of the tracking loop: animate passes its guard, asks
\* for the next frame and updates the controller with
\* tracker.getPosition(), main.js:266-275, tracker.js:249-255
TrackedFrame ==
    /\ FeedsTracker
    /\ raf.demo = 0
    /\ Update(ft.headX, ft.headY)

---------------------------------------------------------------------------
(* The pointer and the keyboard, main.js:226-233,345-353 *)

\* The head position and the filters after FaceTracker.reset(),
\* tracker.js:280-285
TrackerReset(t) ==
    [t EXCEPT !.filterX = reset(@), !.filterY = reset(@),
              !.headX = 0, !.headY = 0]

\* Where the pointer is, as fractions of the window's width and height:
\* the centre, and the top right corner.
PointerPoints == {<<500, 500>>, <<1000, 0>>}

\* The listener that stores the position in every mode.
PointedAnyMode(m, control, demo, point) ==
    IF control
    THEN [x |-> (point[1] - Half) * 2, y |-> (point[2] - Half) * 2]
    ELSE m

\* mouseX and mouseY after a mousemove event at point: the listener, if
\* setupMouseControl installed one, returns at once when demoMode is
\* false, main.js:226-233
Pointed(m, control, demo, point) ==
    IF control /\ demo
    THEN [x |-> (point[1] - Half) * 2, y |-> (point[2] - Half) * 2]
    ELSE m

\* A mousemove event.
MouseMove(point) ==
    /\ mouse' = Pointed(mouse, mouseControl, demoMode, point)
    /\ UNCHANGED <<appVars, par, scene, call, ft, now, flt, fret, probe, used>>

\* Key R, main.js:345-353
KeyR ==
    /\ par' = Recentred(par)
    /\ ft' = IF tracker # 0 THEN TrackerReset(ft) ELSE ft
    /\ mouse' = [x |-> 0, y |-> 0]
    /\ UNCHANGED <<appVars, scene, call, now, flt, fret, probe, used>>

\* The objects of the numeric pipeline as main.js:56-72 and the tracker's
\* constructor, tracker.js:30-39, make them.
InitCore ==
    /\ par = ParallaxController
    /\ scene = ParallaxScene
    /\ call = NoCall
    /\ ft = [headX |-> 0, headY |-> 0,
             filterX |-> TrackerFilter, filterY |-> TrackerFilter]
    /\ now = 0
    /\ flt = TrackerFilter
    /\ fret = NoReturn
    /\ mouse = [x |-> 0, y |-> 0]
    /\ probe = [n |-> 0, lo |-> 0, hi |-> 0]
    /\ used = [update |-> 0, filter |-> 0, cycle |-> 0]

---------------------------------------------------------------------------
\* init() once the layers are loaded, main.js:71-102, for either value of
\* CONFIG.demoMode (main.js:24).  The page shows no light booster at first.
Init ==
    /\ demoMode \in BOOLEAN
    /\ toggleDisabled = FALSE
    /\ lightBoosterHidden = TRUE
    /\ srcObject = 0
    /\ liveStreams = {}
    /\ IF demoMode
       THEN /\ mouseControl = TRUE
            /\ isRunning = TRUE
            /\ tracker = 0
            /\ trk = [i \in Slots |-> NoObject]
            /\ raf = [animate |-> 0, demo |-> 1]
       ELSE /\ mouseControl = FALSE
            /\ isRunning = FALSE
            /\ tracker = 1
            /\ trk = [i \in Slots |->
                        IF i = 1
                        THEN [FaceTracker EXCEPT !.pc = "getUserMedia",
                                                 !.caller = "init"]
                        ELSE NoObject]
            /\ raf = [animate |-> 0, demo |-> 0]
    /\ InitCore

Next ==
    \/ ClickToTracking
    \/ ClickToDemo
    \/ \E i \in Slots : GetUserMediaResolves(i)
    \/ \E i \in Slots : GetUserMediaRejects(i)
    \/ \E i \in Slots : PlayResolves(i)
    \/ \E i \in Slots : PlayRejects(i)
    \/ \E i \in Slots : CameraStartResolves(i)
    \/ \E i \in Slots : CameraStartRejects(i)
    \/ \E i \in Slots, detected \in BOOLEAN : OnResults(i, detected)
    \/ FrameTick
    \/ KeyL
    \/ \E point \in PointerPoints : MouseMove(point)
    \/ KeyR

Spec == Init /\ [][Next]_vars

\* The program as shipped: CONFIG.demoMode is true (main.js:24).
InitDemoStart == Init /\ demoMode

SpecDemoStart == InitDemoStart /\ [][Next]_vars

\* The ParallaxController driven by its callers' calls alone, on the page
\* as shipped.
NextParallax ==
    \/ \E target \in Targets : Update(target[1], target[2])
    \/ \E value \in SensitivityArgs : SetSensitivity(value)
    \/ \E value \in SmoothingArgs : SetSmoothing(value)
    \/ \E enabled \in BOOLEAN : ToggleOffAxis(enabled)
    \/ ParallaxReset

SpecParallax == InitDemoStart /\ [][NextParallax]_vars

\* The tracking loop at work: the toggle's init() has succeeded on tracker
\* 1 and the demo loop's last callback has returned at its guard.
InitPipeline ==
    /\ demoMode = FALSE
    /\ isRunning = TRUE
    /\ tracker = 1
    /\ toggleDisabled = FALSE
    /\ mouseControl = TRUE
    /\ lightBoosterHidden = TRUE
    /\ trk = [i \in Slots |->
                IF i = 1
                THEN [FaceTracker EXCEPT !.pc = "done", !.caller = "toggle",
                                         !.camera = "started",
                                         !.isTracking = TRUE]
                ELSE NoObject]
    /\ srcObject = 1
    /\ liveStreams = {1}
    /\ raf = [animate |-> 1, demo |-> 0]
    /\ InitCore

\* The tracker feeding the controller frame by frame, and calls of the
\* controller's other methods that take each setting off its default.
NextPipeline ==
    \/ \E detected \in BOOLEAN, nose \in NosePoints, dt \in FrameTimes :
          TrackedOnResults(detected, nose, dt)
    \/ TrackedFrame
    \/ \E value \in {8000} : SetSensitivity(value)
    \/ \E value \in {2000} : SetSmoothing(value)
    \/ \E enabled \in {FALSE} : ToggleOffAxis(enabled)
    \/ ParallaxReset
    \/ KeyR

SpecPipeline == InitPipeline /\ [][NextPipeline]_vars

\* A OneEuroFilter driven by calls of its methods alone.
NextFilter ==
    \/ \E x \in Samples, timestamp \in Timestamps : Filter(x, timestamp)
    \/ FilterReset

SpecFilter == InitDemoStart /\ [][NextFilter]_vars

\* A OneEuroFilter that, after calls of its methods, is fed one sample
\* again and again at 60 Hz.
NextConverge ==
    \/ \E x \in Samples, timestamp \in Timestamps :
          fret.run = 0 /\ Filter(x, timestamp)
    \/ fret.run = 0 /\ FilterReset
    \/ Repeat

SpecConverge == InitDemoStart /\ [][NextConverge]_vars

\* A OneEuroFilter as constructed, fed the alternating sequence.
NextJitter == JitterSample

SpecJitter == InitDemoStart /\ [][NextJitter]_vars

---------------------------------------------------------------------------
(* The confidence score, tracker.js:138-157 *)

\* C1: whatever cycles onResults has handled, in any order, on a tracker
\* made by new FaceTracker(), its confidence score is within [0, 100].
C1_ScoreInRange ==
    \A i \in Slots : trk[i].confidence >= 0 /\ trk[i].confidence <= 100

\* A tracker missed a cycle with its score already at 0.
C1_Witness ==
    \E i \in Slots : trk[i].missRun = 21 /\ trk[i].confidence = 0

\* C2: every missed cycle sets the score to max(0, score - 5), a decrease
\* of exactly 5 while the score is at least 5; so k consecutive misses
\* after a valid detection leave max(0, 100 - 5k), which is 0 from the
\* 20th miss on and not before.
C2_MissDecay ==
    /\ [][\A i \in Slots :
            OnResults(i, FALSE) =>
               /\ trk'[i].confidence = Max(0, trk[i].confidence - 5)
               /\ trk[i].confidence >= 5 =>
                     trk'[i].confidence = trk[i].confidence - 5]_vars
    /\ [](\A i \in Slots :
            trk[i].missRun >= 0 =>
               /\ trk[i].confidence = Max(0, 100 - 5 * trk[i].missRun)
               /\ trk[i].confidence = 0 <=> trk[i].missRun >= 20)

\* The 20th consecutive miss has brought the score to 0.
C2_Witness ==
    \E i \in Slots : trk[i].missRun = 20 /\ trk[i].confidence = 0

\* C3: a valid detection handled by onResults leaves the score at exactly
\* 100, from any score and after any number of misses.
C3_DetectionRestores ==
    [][\A i \in Slots :
         OnResults(i, TRUE) => trk'[i].confidence = 100]_vars

\* A tracker whose last cycle was a valid detection.
C3_Witness ==
    \E i \in Slots :
        trk[i].missRun = 0 /\ trk[i].landmarks /\ trk[i].confidence = 100

\* C4: in tracking mode, right after a detection cycle is handled, the
\* light booster is shown if and only if that cycle's score is below 50.
C4_AlertIffLow ==
    [][\A i \in Slots, d \in BOOLEAN :
         (OnResults(i, d) /\ ~demoMode) =>
            (~lightBoosterHidden' <=> trk'[i].confidence < 50)]_vars

\* Tracking mode, the current tracker's score just under the threshold and
\* the booster shown.
C4_Witness ==
    /\ ~demoMode
    /\ tracker # 0
    /\ trk[tracker].confidence = 45
    /\ ~lightBoosterHidden

\* C5: in tracking mode a valid detection hides the alert, the k-th
\* consecutive miss after it leaves the alert hidden for k <= 10 (so one
\* miss amid detections never raises it) and shows it for k >= 11.
C5_FlickerImmunity ==
    [][\A i \in Slots :
         /\ (OnResults(i, TRUE) /\ ~demoMode) => lightBoosterHidden'
         /\ (OnResults(i, FALSE) /\ ~demoMode /\ trk[i].missRun >= 0) =>
               (lightBoosterHidden' <=> trk'[i].missRun <= 10)]_vars

\* Tracking mode, ten misses in a row after a detection, no alert.
C5_Witness ==
    /\ ~demoMode
    /\ lightBoosterHidden
    /\ \E i \in Slots : trk[i].missRun = 10 /\ trk[i].confidence = 50

---------------------------------------------------------------------------
(* Mode switching, main.js:108-221 *)

\* The tracking frame loop is live: animate() passes its guard.
TrackingActive == isRunning /\ ~demoMode

\* The capture resources held, by the slot of the tracker that took them:
\* a stream with live tracks, a started camera.
Holders == {i \in Slots : i \in liveStreams \/ trk[i].camera = "started"}

\* C6: the tracking loop goes live only in a step in which init() of a
\* tracker, made by a toggle request or by a configured tracking start,
\* returns true; and every step in which init() returns false leaves the
\* system in demo mode.
C6_TrackingNeedsReadyInit ==
    [][/\ (~TrackingActive /\ TrackingActive') =>
             \E i \in Slots :
                 /\ trk[i].pc = "start"
                 /\ trk[i].caller \in {"toggle", "init"}
                 /\ trk'[i].pc = "done"
                 /\ trk'[i].isTracking
       /\ (\E i \in Slots : InitReturnsFalse(i)) =>
             (demoMode' /\ ~TrackingActive')]_vars

\* The tracking loop is live on a tracker whose init() returned true.
C6_Witness ==
    /\ TrackingActive
    /\ raf.animate >= 1
    /\ tracker # 0
    /\ trk[tracker].isTracking
    /\ trk[tracker].caller = "toggle"

C8_TeardownOnToggle ==
    [][ClickToDemo =>
          /\ tracker # 0
          /\ tracker' = 0
          /\ trk'[tracker].camera # "started"
          /\ ~trk'[tracker].isTracking
          /\ srcObject' \notin liveStreams'
          /\ demoMode' /\ isRunning'
          /\ raf'.demo = raf.demo + 1
          /\ raf'.animate = raf.animate]_vars

\* Right after a switch from a running tracking loop: its callback is
\* still pending, the demo loop is scheduled, nothing is held.
C8_Witness ==
    /\ demoMode /\ isRunning
    /\ tracker = 0
    /\ raf.animate >= 1
    /\ raf.demo >= 1
    /\ Holders = {}

\* C9: at most one detector holds the capture device, and in demo mode
\* with no init() in flight none does.
C9_CaptureReleased ==
    /\ Cardinality(Holders) <= 1
    /\ (demoMode /\ InFlight = {}) => Holders = {}

\* C10: a step in which init() of tracker i returns false ends that
\* attempt (no init() is started again) with the system in demo mode,
\* isRunning true and one more animateDemo callback scheduled.
C10_FallbackKeepsLoop ==
    [][\A i \in Slots :
         InitReturnsFalse(i) =>
            /\ demoMode' /\ isRunning'
            /\ raf'.demo = raf.demo + 1
            /\ InFlight' = InFlight \ {i}]_vars

\* A toggle's init() has failed: demo mode runs again, the toggle is
\* enabled, the failed tracker is still referenced.
C10_Witness ==
    /\ demoMode /\ isRunning
    /\ raf.demo >= 1
    /\ ~toggleDisabled
    /\ tracker # 0
    /\ trk[tracker].pc = "done"
    /\ ~trk[tracker].isTracking
    /\ trk[tracker].caller = "toggle"

---------------------------------------------------------------------------
(* The input of the frame loops, main.js:226-292 *)

C12_PointerWired ==
    (demoMode /\ isRunning) => mouseControl

---------------------------------------------------------------------------
(* ParallaxController, tracker.js:295-360 *)

\* value is within [lo, hi].
Within(value, lo, hi) == lo <= value /\ value <= hi

\* C13: whatever targets update is called with, inside [-1, 1] or far
\* outside it, the position it hands to the scene for the camera
\* translation and for the frustum shift is within [-1, 1] on each axis.
C13_HandedInRange ==
    /\ Within(call.x, -Unit, Unit)
    /\ Within(call.y, -Unit, Unit)

\* Targets far outside the range have driven the stored position out of
\* it on both axes, and the scene was handed the ends of the range.
C13_Witness ==
    /\ par.currentX > Unit /\ call.x = Unit
    /\ par.currentY < -Unit /\ call.y = -Unit

\* C14: the position kept from frame to frame, currentX and currentY, is
\* within [-1, 1] on each axis after every update.
C14_StoredInRange ==
    /\ Within(par.currentX, -Unit, Unit)
    /\ Within(par.currentY, -Unit, Unit)

\* C15: sensitivity stays within [0.5, 5.0] and lerpFactor within
\* [0.01, 0.5]; a setter stores an argument inside the range as it is and
\* an argument outside it as the nearest end of the range.
C15_SettersClamp ==
    /\ [][/\ \A value \in SensitivityArgs :
               SetSensitivity(value) =>
                  par'.sensitivity =
                     IF value < MinSensitivity THEN MinSensitivity
                     ELSE IF value > MaxSensitivity THEN MaxSensitivity
                     ELSE value
          /\ \A value \in SmoothingArgs :
               SetSmoothing(value) =>
                  par'.lerpFactor =
                     IF value < MinLerpFactor THEN MinLerpFactor
                     ELSE IF value > MaxLerpFactor THEN MaxLerpFactor
                     ELSE value]_vars
    /\ [](/\ Within(par.sensitivity, MinSensitivity, MaxSensitivity)
          /\ Within(par.lerpFactor, MinLerpFactor, MaxLerpFactor))

\* An argument above the range of sensitivity and one below the range of
\* lerpFactor have been stored as the ends of the ranges.
C15_Witness ==
    /\ par.sensitivity = MaxSensitivity
    /\ par.lerpFactor = MinLerpFactor

\* C16: every update leaves the camera at x = -smoothedX * sensitivity and
\* y = -smoothedY * sensitivity * 0.5, smoothed being the clamped position
\* of that call: (0.5, 0.2) with sensitivity 2.0 gives (-1.0, -0.2), and
\* always |x| <= sensitivity and |y| <= sensitivity / 2.
C16_CameraMapping ==
    [][\A target \in Targets :
         Update(target[1], target[2]) =>
            /\ scene'.cameraX = -Mul(call'.x, par.sensitivity)
            /\ scene'.cameraY =
                  -Mul(Mul(call'.y, par.sensitivity), VerticalFactor)
            /\ (call'.x = 500 /\ call'.y = 200 /\ par.sensitivity = 2000) =>
                  (scene'.cameraX = -1000 /\ scene'.cameraY = -200)
            /\ Abs(scene'.cameraX) <= par.sensitivity
            /\ 2 * Abs(scene'.cameraY) <= par.sensitivity]_vars

\* The scenario: smoothed position (0.5, 0.2) at sensitivity 2.0.
C16_Witness ==
    /\ call.x = 500 /\ call.y = 200
    /\ par.sensitivity = 2000
    /\ scene.cameraX = -1000 /\ scene.cameraY = -200

\* C17: an update with enableOffAxis true shifts the frustum by
\* smoothedX * 0.01 on the left and on the right and by smoothedY * 0.25
\* on the top and on the bottom; an update with enableOffAxis false moves
\* the camera and leaves the frustum as it was.
C17_FrustumShift ==
    [][\A target \in Targets :
         Update(target[1], target[2]) =>
            /\ scene'.cameraX = Mul(-call'.x, par.sensitivity)
            /\ IF par.enableOffAxis
               THEN /\ scene'.left = Mul(call'.x, ShiftFactorX)
                    /\ scene'.right = Mul(call'.x, ShiftFactorX)
                    /\ scene'.top = Mul(call'.y, ShiftFactorY)
                    /\ scene'.bottom = Mul(call'.y, ShiftFactorY)
               ELSE /\ scene'.left = scene.left
                    /\ scene'.right = scene.right
                    /\ scene'.top = scene.top
                    /\ scene'.bottom = scene.bottom]_vars

\* The last update ran with off-axis projection disabled: the camera has
\* moved and the frustum still has the shift of an earlier update.
C17_Witness ==
    /\ ~call.offAxis
    /\ scene.cameraX # 0
    /\ scene.top # 0
    /\ scene.left # Mul(call.x, ShiftFactorX)

\* C18: ParallaxController.reset() puts the smoothed position at (0, 0)
\* and changes nothing else: not sensitivity, lerpFactor or enableOffAxis,
\* not the confidence score, the tracker's head position or the state of
\* either filter.
C18_ResetFrame ==
    [][ParallaxReset =>
          /\ par'.currentX = 0 /\ par'.currentY = 0
          /\ par'.sensitivity = par.sensitivity
          /\ par'.lerpFactor = par.lerpFactor
          /\ par'.enableOffAxis = par.enableOffAxis
          /\ trk'[tracker].confidence = trk[tracker].confidence
          /\ ft'.headX = ft.headX /\ ft'.headY = ft.headY
          /\ ft'.filterX = ft.filterX /\ ft'.filterY = ft.filterY]_vars

\* reset() has recentred a controller that an update had moved off the
\* centre, with every setting changed from its default, while the tracker
\* holds a score, a head position and filters that have seen two samples.
C18_Witness ==
    /\ par.currentX = 0 /\ par.currentY = 0
    /\ call.x # 0 /\ call.y # 0
    /\ par.sensitivity # DefaultSensitivity
    /\ par.lerpFactor # DefaultLerpFactor
    /\ ~par.enableOffAxis
    /\ trk[tracker].confidence = 100
    /\ ft.headX # 0 /\ ft.headY # 0
    /\ ft.filterX.dxPrev # 0 /\ ft.filterY.dxPrev # 0

---------------------------------------------------------------------------
(* OneEuroFilter, utils.js:27-77 *)

\* C19: the first filter(v) on a filter just constructed, or just reset
\* after any calls of filter, returns exactly v and records v as the last
\* value.
C19_FirstSamplePassthrough ==
    [][\A x \in Samples, timestamp \in Timestamps :
         (Filter(x, timestamp) /\ fret.n = 0) =>
            /\ fret'.result = x
            /\ flt'.xPrev = <<x>>]_vars

\* The first call after a reset that followed two calls a time apart: it
\* returned its sample, 1.0, and recorded it.
C19_Witness ==
    /\ used.filter = 3
    /\ fret.n = 1
    /\ flt.frequency # DefaultFrequency
    /\ fret.x = 1000 /\ fret.result = 1000
    /\ flt.xPrev = <<1000>>

\* C20: a filter that holds no sample, as reset() leaves it after any
\* calls of filter, is equal field by field (last value, last derivative,
\* last timestamp, frequency) to the filter as constructed.
C20_ResetEqualsFresh ==
    flt.xPrev = <<>> => flt = TrackerFilter

---------------------------------------------------------------------------
(* The frame loops, main.js:238-292 *)

\* The pending frame callbacks that will pass their guard at the next
\* frame tick, each of which calls parallax.update once, main.js:244,275
LiveCallbacks ==
    (IF AnimatePasses(isRunning, demoMode) THEN raf.animate ELSE 0)
    + (IF AnimateDemoPasses(isRunning, demoMode) THEN raf.demo ELSE 0)

\* C25: at most one pending frame callback, animate or animateDemo, will
\* pass its guard, so that parallax.update runs at most once per frame.
C25_OneLiveLoop == LiveCallbacks <= 1

\* C27: whenever a pending animate callback will pass its guard, the
\* tracker reference is not null.
C27_TrackerPresent ==
    /\ FeedsTracker => tracker # 0
    /\ [][\A i \in Slots :
            (CameraStartResolves(i) /\ AnimatePasses(isRunning', demoMode'))
               => tracker' # 0]_vars

\* The tracking loop runs on tracker 2 while a callback of the demo loop
\* left from the earlier mode is still pending.
C27_Witness ==
    /\ FeedsTracker
    /\ raf.demo >= 1
    /\ tracker = 2

---------------------------------------------------------------------------
(* The head position during a dropout, tracker.js:149-157,249-255 *)

\* C28: a missed detection cycle changes the score and the stored
\* landmarks only: headX, headY and both filters stay as they were, so
\* that getPosition() keeps returning the last filtered position.
C28_MissKeepsPosition ==
    [][\A nose \in NosePoints, dt \in FrameTimes :
         TrackedOnResults(FALSE, nose, dt) =>
            /\ ft'.headX = ft.headX /\ ft'.headY = ft.headY
            /\ ft'.filterX = ft.filterX /\ ft'.filterY = ft.filterY
            /\ trk'[tracker] =
                  [trk[tracker] EXCEPT
                      !.confidence = trk'[tracker].confidence,
                      !.landmarks = FALSE,
                      !.missRun = trk'[tracker].missRun]]_vars

\* A miss after a valid detection off the centre: the score has decayed,
\* the landmarks are gone, the head position and the filters are kept.
C28_Witness ==
    /\ trk[tracker].missRun = 1
    /\ trk[tracker].confidence = 95
    /\ ~trk[tracker].landmarks
    /\ ft.headX # 0 /\ ft.headY # 0
    /\ ft.filterX.xPrev = <<ft.headX>>
    /\ ft.filterY.xPrev = <<ft.headY>>

---------------------------------------------------------------------------
(* The input of parallax.update, main.js:226-275 *)

\* C26: a frame callback that updates the controller reads the source of
\* the current mode, the tracker's head position only when demoMode is
\* false and the pointer position only when it is true; and a mousemove
\* event while demoMode is false leaves mouseX and mouseY as they were.
C26_InputMatchesMode ==
    [][/\ FrameTick =>
             /\ FeedsTracker => ~demoMode
             /\ FeedsPointer => demoMode
       /\ \A point \in PointerPoints :
             (MouseMove(point) /\ ~demoMode) => mouse' = mouse]_vars

\* The tracking loop is live with the listener installed, and the pointer
\* position stored in demo mode has been kept off the centre.
C26_Witness ==
    /\ FeedsTracker
    /\ ~demoMode
    /\ mouseControl
    /\ mouse.x # 0

---------------------------------------------------------------------------
(* reset(), utils.js:72-76, tracker.js:280-285,356-359 *)

\* C21: in every state a second reset() changes nothing after a first one,
\* for OneEuroFilter.reset, ParallaxController.reset and
\* FaceTracker.reset; and key R, which calls the latter two, leaves
\* objects that a further reset() does not change.
C21_ResetIdempotent ==
    /\ [](/\ reset(reset(ft.filterX)) = reset(ft.filterX)
          /\ reset(reset(ft.filterY)) = reset(ft.filterY)
          /\ reset(reset(flt)) = reset(flt)
          /\ Recentred(Recentred(par)) = Recentred(par)
          /\ TrackerReset(TrackerReset(ft)) = TrackerReset(ft))
    /\ [][KeyR =>
            /\ Recentred(par') = par'
            /\ TrackerReset(ft') = ft'
            /\ reset(ft'.filterX) = ft'.filterX]_vars

\* Key R has reset a controller that an update had moved off the centre
\* and a tracker whose filters had seen samples 1/30 s apart.
C21_Witness ==
    /\ par.currentX = 0 /\ call.x # 0
    /\ ft.headX = 0 /\ ft.headY = 0
    /\ ft.filterX.xPrev = <<>> /\ ft.filterX.frequency # DefaultFrequency
    /\ ft.filterY.xPrev = <<>>
    /\ trk[tracker].confidence = 100

---------------------------------------------------------------------------
(* The filter's arithmetic, utils.js:39-70 *)

\* C22: a call of filter that is not the first and comes no later than
\* the call before it (dt <= 0) divides by no dt: the estimated frequency
\* keeps its value, the derivative is the change over the nominal 1/60 s
\* (the change times 60) smoothed as usual, and the call records its
\* timestamp and the value it returns; a call that comes later (dt > 0)
\* sets the estimated frequency to 1/dt.
C22_NoElapsedTime ==
    [][\A x \in Samples, timestamp \in Timestamps :
         (Filter(x, timestamp) /\ flt.xPrev # <<>>) =>
            LET dt == timestamp - flt.tPrev[1]
                delta == x - flt.xPrev[1]
            IN  /\ dt <= 0 =>
                     /\ flt'.frequency = flt.frequency
                     /\ flt'.dxPrev = Mix(alpha(flt.frequency, flt.dCutoff),
                                          delta * FallbackRate, flt.dxPrev)
                /\ dt > 0 =>
                     flt'.frequency = RoundDiv(Scale * TicksPerSecond, dt)
                /\ flt'.tPrev = <<timestamp>>
                /\ flt'.xPrev = <<fret'.result>>]_vars

\* A call 1/60 s before the call it follows moved the value towards its
\* sample and kept the 30 Hz that the calls before it had set.
C22_Witness ==
    /\ fret.n >= 2
    /\ fret.dt < 0
    /\ flt.frequency = 30000
    /\ fret.result # fret.prev
    /\ flt.xPrev = <<fret.result>>

\* C29: every call of filter that is not the first returns a value
\* between the last filtered value and the new sample, both included, and
\* the blend factor it uses is above 0 and at most 1.
C29_NoOvershoot ==
    [][\A x \in Samples, timestamp \in Timestamps :
         (Filter(x, timestamp) /\ flt.xPrev # <<>>) =>
            LET a == alpha(flt'.frequency,
                           flt.minCutoff + Mul(flt.beta, Abs(flt'.dxPrev)))
            IN  /\ flt.minCutoff > 0 /\ flt.beta >= 0 /\ flt'.frequency > 0
                /\ Min(flt.xPrev[1], x) <= fret'.result
                /\ fret'.result <= Max(flt.xPrev[1], x)
                /\ 0 < a /\ a <= Scale]_vars

\* A second or later call returned a value strictly between the last
\* value and its sample.
C29_Witness ==
    /\ fret.n >= 2
    /\ Min(fret.prev, fret.x) < fret.result
    /\ fret.result < Max(fret.prev, fret.x)

\* The distance from the sample that counts as converged, 0.01, and the
\* number of repeats of a sample within which the filter reaches it.
Epsilon == 10
ConvergeWithin == 60

\* C23: when one sample v is fed again and again at 60 Hz to a filter in
\* any state that earlier samples left, the value returned is within
\* Epsilon of v from the ConvergeWithin-th repeat on; when the filter held
\* no sample before the first v, every call returns v.
C23_ConstantConverges ==
    /\ fret.run >= ConvergeWithin => Abs(fret.result - fret.x) <= Epsilon
    /\ fret.n = fret.run + 1 => fret.result = fret.x

\* A filter that earlier samples had left away from v has been fed v
\* ConvergeWithin times and returns a value near v that is not v.
C23_Witness ==
    /\ fret.run >= ConvergeWithin
    /\ fret.n > fret.run + 1
    /\ fret.result # fret.x
    /\ Abs(fret.result - fret.x) <= Epsilon

\* C24: when a default-configured filter is fed 0.0, 0.01, 0.0, 0.01, ...
\* at 60 Hz, the outputs after the first 30 samples span less than 30% of
\* the 0.01 that the inputs span.
C24_JitterRejected ==
    probe.n > SettleSamples =>
        (probe.hi - probe.lo) * 100 < 30 * JitterAmplitude

\* Sixty samples have gone through and the outputs measured after the
\* thirtieth still ripple.
C24_Witness ==
    /\ probe.n >= 2 * SettleSamples
    /\ probe.hi > probe.lo
    /\ flt.frequency = DefaultFrequency

====
